---------------------------- MODULE Spec2Model ----------------------------
(***************************************************************************)
(* dns-bench (src/main.go): a sequential DNS resolver benchmark.           *)
(*                                                                         *)
(* The specifications of this module:                                      *)
(*   SpecParse  parseResolvers applied to every bounded configuration      *)
(*              string;                                                    *)
(*   SpecSum    summarize / uniqueErrors / durFmt applied to every bounded *)
(*              sample sequence;                                           *)
(*   Spec       the run of main: parse, the two nested loops around the    *)
(*              blocking lookup, printTable, writeCSV, exit code;          *)
(*   FairSpec   Spec with weak fairness of main's steps, for liveness.     *)
(*                                                                         *)
(* Strings are sequences of one-character strings.  time.Duration is an    *)
(* integer number of nanoseconds.  A float64 is held in fixed point (see   *)
(* below); the conversions float64 -> time.Duration truncate, as Go's      *)
(* conversion does.                                                        *)
(***************************************************************************)
EXTENDS Integers, Sequences, FiniteSets, TLC

(***************************************************************************)
(* Bounds                                                                  *)
(***************************************************************************)
\* longest configuration string given to parseResolvers in SpecParse
MaxLen == 5
\* longest sample sequence given to summarize in SpecSum
MaxSamples == 3
\* largest value of the -count flag in Spec
MaxCount == 2

\* characters of the configuration strings: two letters, '=', ',' and ' '
Alphabet == {"a", "b", "=", ",", " "}

(***************************************************************************)
(* Library functions of package strings                                    *)
(***************************************************************************)
SetMin(S) == CHOOSE x \in S : \A y \in S : x <= y
SetMax(S) == CHOOSE x \in S : \A y \in S : y <= x

\* strings.TrimSpace: s without its leading and trailing spaces
TrimSpace(s) ==
    LET nonSpace == {k \in 1..Len(s) : s[k] # " "}
    IN  IF nonSpace = {} THEN <<>>
        ELSE SubSeq(s, SetMin(nonSpace), SetMax(nonSpace))

\* strings.Index for a one-character separator: index of the first
\* occurrence of c in s, 0 if none
Index(s, c) ==
    LET at == {k \in 1..Len(s) : s[k] = c}
    IN  IF at = {} THEN 0 ELSE SetMin(at)

\* strings.Split(s, sep) for a one-character separator: the texts between
\* consecutive separators, always at least one part
Split(s, sep) ==
    LET at == {k \in 1..Len(s) : s[k] = sep}
        n  == Cardinality(at) + 1
        \* index of the j-th separator, with 0 and Len(s)+1 as sentinels
        pos(j) == IF j = 0 THEN 0
                  ELSE IF j = n THEN Len(s) + 1
                  ELSE CHOOSE k \in at : Cardinality({m \in at : m < k}) = j - 1
    IN  [j \in 1..n |-> SubSeq(s, pos(j - 1) + 1, pos(j) - 1)]

\* strings.SplitN(s, sep, 2): cut at the first separator only
SplitN2(s, sep) ==
    LET k == Index(s, sep)
    IN  IF k = 0 THEN <<s>>
        ELSE <<SubSeq(s, 1, k - 1), SubSeq(s, k + 1, Len(s))>>

(***************************************************************************)
(* parseResolvers                                                          *)
(***************************************************************************)
ResolverCfg(name, addr) == [Name |-> name, Addr |-> addr]

\* ParseStep without the len(kv) != 2 test: a segment without '=' is kept
ParseStep_KeepNoEq(out, p0) ==
    LET p  == TrimSpace(p0)
        kv == SplitN2(p, "=")
    IN  IF p = <<>> THEN out
        ELSE Append(out, ResolverCfg(TrimSpace(kv[1]),
                                     IF Len(kv) = 2 THEN TrimSpace(kv[2]) ELSE <<>>))

\* one iteration of the loop of parseResolvers: out after segment p
ParseStep(out, p0) ==
    LET p  == TrimSpace(p0)
        kv == SplitN2(p, "=")
    IN  IF p = <<>> THEN out
        ELSE IF Len(kv) # 2 THEN out
        ELSE Append(out, ResolverCfg(TrimSpace(kv[1]), TrimSpace(kv[2])))

RECURSIVE ParseLoop(_, _)
ParseLoop(parts, out) ==
    IF parts = <<>> THEN out
    ELSE ParseLoop(Tail(parts), ParseStep(out, Head(parts)))

parseResolvers(s) == ParseLoop(Split(s, ","), <<>>)

(***************************************************************************)
(* float64 values.  Every float64 of the program is a number of            *)
(* milliseconds; it is held in fixed point, as an integer number of        *)
(* hundredths of a nanosecond.  That is exact for the elements of          *)
(* DurationsMs (whole microseconds), for their sum and for the percentiles *)
(* (hundredths of a whole microsecond); the average loses only a fraction  *)
(* below a hundredth of a nanosecond, which cannot change the whole        *)
(* nanoseconds the conversion to time.Duration keeps.  The rounding error  *)
(* of float64 arithmetic is not modelled.                                  *)
(***************************************************************************)
\* fixed-point units of a float64 per nanosecond
FloatPerNs == 100
\* time.Microsecond, in nanoseconds
Microsecond == 1000
\* time.Duration(x * float64(time.Millisecond)): the product is x in
\* nanoseconds, the conversion truncates it to whole nanoseconds
ToDuration(x) == x \div FloatPerNs
\* Duration.Microseconds(), for the non-negative durations of the model
Microseconds(d) == d \div Microsecond
\* float64(d.Microseconds()) / 1000.0
DurationMs(d) == Microseconds(d) * Microsecond * FloatPerNs

\* sort.Float64s: ascending order.  The element at place k is the one with
\* k-1 elements before it in the order (equal elements by position).
SortFloat64s(s) ==
    LET rank(n) == 1 + Cardinality({j \in 1..Len(s) :
                                       s[j] < s[n] \/ (s[j] = s[n] /\ j < n)})
    IN  [k \in 1..Len(s) |-> s[CHOOSE n \in 1..Len(s) : rank(n) = k]]

(***************************************************************************)
(* Samples and errors                                                      *)
(***************************************************************************)
\* An error value: msg is what Error() returns, id tells apart two error
\* values that carry the same message.  NilErr is the nil error.
NilErr == [nil |-> TRUE, msg |-> "", id |-> 0]
Err(m, k) == [nil |-> FALSE, msg |-> m, id |-> k]

\* error messages a lookup can return; "timeout" is the expiry of the
\* per-query context deadline
Msgs == {"timeout", "refused"}
ErrIds == {1, 2}
Errs == {Err(m, k) : m \in Msgs, k \in ErrIds}

\* elapsed times in nanoseconds: zero, a whole microsecond, and two values
\* that are not whole microseconds
Durs == {0, 1000, 1500, 2999}

Sample == [Duration : Durs, Err : Errs \cup {NilErr}]

(***************************************************************************)
(* percentile, summarize                                                   *)
(***************************************************************************)
\* placeholder for Min before the first success (math.MaxInt64 in the
\* source; here the largest integer the checker represents, which like
\* MaxInt64 is above every duration)
MaxInt64 == 2147483647

percentile(sorted, p) ==
    IF Len(sorted) = 0 THEN 0
    ELSE IF p <= 0 THEN sorted[1]
    ELSE IF p >= 100 THEN sorted[Len(sorted)]
    ELSE LET pos100  == p * (Len(sorted) - 1)   \* pos, in hundredths
             l       == pos100 \div 100
             u       == IF pos100 % 100 = 0 THEN l ELSE l + 1
             frac100 == pos100 - 100 * l          \* frac, in hundredths
         IN  IF l = u THEN sorted[l + 1]
             ELSE (sorted[l + 1] * (100 - frac100) + sorted[u + 1] * frac100) \div 100

ZeroStats ==
    [Count |-> 0, Successes |-> 0, Min |-> 0, Max |-> 0, Avg |-> 0,
     Median |-> 0, P95 |-> 0, Errors |-> <<>>, DurationsMs |-> <<>>]

\* SummarizeStep that takes a zero elapsed time for "no result"
SummarizeStep_SkipZero(stats, s) ==
    IF s.Err.nil /\ s.Duration > 0
    THEN [stats EXCEPT
            !.Successes = @ + 1,
            !.Min = IF s.Duration < @ THEN s.Duration ELSE @,
            !.Max = IF s.Duration > @ THEN s.Duration ELSE @,
            !.DurationsMs = Append(@, DurationMs(s.Duration))]
    ELSE IF s.Err.nil THEN stats
    ELSE [stats EXCEPT !.Errors = Append(@, s.Err)]

\* body of the first loop of summarize, for one sample
SummarizeStep(stats, s) ==
    IF s.Err.nil
    THEN [stats EXCEPT
            !.Successes = @ + 1,
            !.Min = IF s.Duration < @ THEN s.Duration ELSE @,
            !.Max = IF s.Duration > @ THEN s.Duration ELSE @,
            !.DurationsMs = Append(@, DurationMs(s.Duration))]
    ELSE [stats EXCEPT !.Errors = Append(@, s.Err)]

RECURSIVE SummarizeLoop(_, _)
SummarizeLoop(stats, samples) ==
    IF samples = <<>> THEN stats
    ELSE SummarizeLoop(SummarizeStep(stats, Head(samples)), Tail(samples))

RECURSIVE SumFloat64(_)
SumFloat64(s) == IF s = <<>> THEN 0 ELSE Head(s) + SumFloat64(Tail(s))

\* NoSuccess without the reset of Min and Max
NoSuccess_NoReset(stats) == stats

\* what summarize returns when no sample succeeded
NoSuccess(stats) == [stats EXCEPT !.Min = 0, !.Max = 0]

\* the rest of summarize, when at least one sample succeeded
WithSuccess(stats) ==
    LET avgMs == SumFloat64(stats.DurationsMs) \div stats.Successes
        ms    == SortFloat64s(stats.DurationsMs)
    IN  [stats EXCEPT
            !.Avg = ToDuration(avgMs),
            !.Median = ToDuration(percentile(ms, 50)),
            !.P95 = ToDuration(percentile(ms, 95))]

summarize(samples) ==
    LET stats == SummarizeLoop(
                    [ZeroStats EXCEPT !.Count = Len(samples), !.Min = MaxInt64],
                    samples)
    IN  IF stats.Successes = 0 THEN NoSuccess(stats) ELSE WithSuccess(stats)

(***************************************************************************)
(* Reporting helpers                                                       *)
(***************************************************************************)
\* durFmt: "--" for a non-positive duration, else the milliseconds with one
\* decimal (held as the number of tenths of a millisecond, rounded)
durFmt(d) ==
    IF d <= 0 THEN <<"--">>
    ELSE <<(Microseconds(d) + 50) \div 100, "ms">>

RECURSIVE UniqueLoop(_, _, _)
UniqueLoop(errs, seen, out) ==
    IF errs = <<>> THEN out
    ELSE LET e == Head(errs)
         IN  IF e.nil THEN UniqueLoop(Tail(errs), seen, out)
             ELSE IF e.msg \notin seen
                  THEN UniqueLoop(Tail(errs), seen \cup {e.msg}, Append(out, e))
                  ELSE UniqueLoop(Tail(errs), seen, out)

\* uniqueErrors that only drops the nil errors
uniqueErrors_NoDedup(errs) == SelectSeq(errs, LAMBDA e : ~e.nil)

uniqueErrors(errs) == UniqueLoop(errs, {}, <<>>)

errorStrings(errs) == [k \in 1..Len(errs) |-> errs[k].msg]

\* what printTable writes for one row: the five formatted cells and, below
\* them, one line per distinct error ("%s" of an error prints its message)
TableRow(r) ==
    LET s == r.Stats
    IN  [Name  |-> r.Name,
         Cells |-> <<durFmt(s.Min), durFmt(s.Avg), durFmt(s.Median),
                     durFmt(s.P95), durFmt(s.Max)>>,
         ErrLines |-> IF Len(s.Errors) > 0
                      THEN errorStrings(uniqueErrors(s.Errors))
                      ELSE <<>>]

printTable(rows) == [k \in 1..Len(rows) |-> TableRow(rows[k])]

Row(name, stats, samples) == [Name |-> name, Stats |-> stats, Samples |-> samples]

(***************************************************************************)
(* State                                                                   *)
(***************************************************************************)
VARIABLES
    flags,      \* the parsed command line: resolversCSV, count, outCSV
    pc,         \* where main stands
    resolvers,  \* result of parseResolvers
    ri,         \* 1-based position of the outer loop in resolvers
    i,          \* the inner loop's counter
    samples,    \* samples of the resolver being measured
    rows,       \* one Row per measured resolver
    inflight,   \* lookups that were started and have not returned
    issued,     \* history: every lookup started, in order
    table,      \* what printTable wrote
    stdout,     \* messages written to standard output, in order
    stderr,     \* messages written to standard error, in order
    csv,        \* "none", "written" or "failed"
    exitCode    \* -1 while the process runs, else its exit code

vars == <<flags, pc, resolvers, ri, i, samples, rows, inflight, issued, table,
          stdout, stderr, csv, exitCode>>

Running == -1

\* a lookup: run-th query (0-based) of the r-th resolver (1-based)
Query(r, run) == [r |-> r, run |-> run]

(***************************************************************************)
(* main                                                                    *)
(***************************************************************************)
\* values of the -resolvers flag tried in Spec
ConfigStrings ==
    { <<>>,
      <<"x", ",", ",", "C", "=", "9">>,
      <<"A", "=", "1", ",", "B", "=", "8">>,
      <<" ", "A", " ", "=", "1", ",", "A", "=", "2">>,
      <<"n", "o">> }

\* values of the -out flag: not given, or a path
OutPaths == { <<>>, <<"o", ".", "c", "s", "v">> }

\* elapsed time of the lookups of Spec (SpecSum varies the elapsed times)
MainDurs == {1500}

InitMain ==
    /\ flags \in [resolversCSV : ConfigStrings, count : -1..MaxCount, outCSV : OutPaths]
    /\ pc = "start"
    /\ resolvers = <<>>
    /\ ri = 0
    /\ i = 0
    /\ samples = <<>>
    /\ rows = <<>>
    /\ inflight = {}
    /\ issued = <<>>
    /\ table = <<>>
    /\ stdout = <<>>
    /\ stderr = <<>>
    /\ csv = "none"
    /\ exitCode = Running

\* main.go 55: resolvers := parseResolvers(*resolversCSV)
Parse ==
    /\ pc = "start"
    /\ resolvers' = parseResolvers(flags.resolversCSV)
    /\ pc' = "parsed"
    /\ UNCHANGED <<flags, ri, i, samples, rows, inflight, issued, table, stdout,
                   stderr, csv, exitCode>>

\* main.go 56-59: no resolver parsed
NoResolvers ==
    /\ pc = "parsed"
    /\ Len(resolvers) = 0
    /\ stdout' = Append(stdout, "No resolvers provided.")
    /\ exitCode' = 1
    /\ pc' = "exit"
    /\ UNCHANGED <<flags, resolvers, ri, i, samples, rows, inflight, issued, table,
                   stderr, csv>>

\* main.go 56, 61-68: resolvers parsed, header printed, rows allocated
StartRun ==
    /\ pc = "parsed"
    /\ Len(resolvers) # 0
    /\ stdout' = Append(stdout, "header")
    /\ rows' = <<>>
    /\ ri' = 1
    /\ pc' = "resolver"
    /\ UNCHANGED <<flags, resolvers, i, samples, inflight, issued, table, stderr, csv,
                   exitCode>>

\* main.go 68-69 with a negative count: make([]Sample, 0, count) panics, the
\* runtime writes the panic to standard error and the process exits with 2
BeginResolverPanic ==
    /\ pc = "resolver"
    /\ ri <= Len(resolvers)
    /\ flags.count < 0
    /\ stderr' = Append(stderr, "panic: makeslice: cap out of range")
    /\ exitCode' = 2
    /\ pc' = "exit"
    /\ UNCHANGED <<flags, resolvers, ri, i, samples, rows, inflight, issued, table,
                   stdout, csv>>

\* main.go 68-70: next resolver, fresh samples, i := 0
BeginResolver ==
    /\ pc = "resolver"
    /\ ri <= Len(resolvers)
    /\ flags.count >= 0
    /\ samples' = <<>>
    /\ i' = 0
    /\ pc' = "loop"
    /\ UNCHANGED <<flags, resolvers, ri, rows, inflight, issued, table, stdout,
                   stderr, csv, exitCode>>

\* IssueQuery that starts the lookup without waiting for it
IssueQuery_Async ==
    /\ pc = "loop"
    /\ i < flags.count
    /\ inflight' = inflight \cup {Query(ri, i)}
    /\ issued' = Append(issued, Query(ri, i))
    /\ i' = i + 1
    /\ UNCHANGED <<flags, pc, resolvers, ri, samples, rows, table, stdout, stderr,
                   csv, exitCode>>

\* main.go 70-77: i < count, the lookup is called and main blocks in it
IssueQuery ==
    /\ pc = "loop"
    /\ i < flags.count
    /\ inflight' = inflight \cup {Query(ri, i)}
    /\ issued' = Append(issued, Query(ri, i))
    /\ pc' = "lookup"
    /\ UNCHANGED <<flags, resolvers, ri, i, samples, rows, table, stdout, stderr,
                   csv, exitCode>>

\* LookupReturns that puts the new sample in front of the others
LookupReturns_Prepend ==
    /\ pc = "lookup"
    /\ \E q \in inflight, d \in MainDurs,
          e \in {NilErr} \cup {Err(m, Len(issued)) : m \in Msgs} :
          /\ samples' = <<[Duration |-> d, Err |-> e, q |-> q]>> \o samples
          /\ inflight' = inflight \ {q}
    /\ i' = i + 1
    /\ pc' = "loop"
    /\ UNCHANGED <<flags, resolvers, ri, rows, issued, table, stdout, stderr, csv,
                   exitCode>>

\* LookupReturns that ends the run on the first failed lookup
LookupReturns_FatalOnError ==
    /\ pc = "lookup"
    /\ \E q \in inflight, d \in MainDurs,
          e \in {NilErr} \cup {Err(m, Len(issued)) : m \in Msgs} :
          /\ samples' = Append(samples, [Duration |-> d, Err |-> e, q |-> q])
          /\ inflight' = inflight \ {q}
          /\ pc' = IF e.nil THEN "loop" ELSE "exit"
          /\ exitCode' = IF e.nil THEN exitCode ELSE 1
    /\ i' = i + 1
    /\ UNCHANGED <<flags, resolvers, ri, rows, issued, table, stdout, stderr, csv>>

\* main.go 77-81 and the i++ of line 70: the lookup returns nil or an error
\* (a timeout is one of the errors), the sample is appended.  The field q of
\* the sample is history: the lookup the sample is the outcome of.
LookupReturns ==
    /\ pc = "lookup"
    /\ \E q \in inflight, d \in MainDurs,
          e \in {NilErr} \cup {Err(m, Len(issued)) : m \in Msgs} :
          /\ samples' = Append(samples, [Duration |-> d, Err |-> e, q |-> q])
          /\ inflight' = inflight \ {q}
    /\ i' = i + 1
    /\ pc' = "loop"
    /\ UNCHANGED <<flags, resolvers, ri, rows, issued, table, stdout, stderr, csv,
                   exitCode>>

\* main.go 70, 83-84: the inner loop ends, the row is summarized and appended
EndResolver ==
    /\ pc = "loop"
    /\ ~(i < flags.count)
    /\ rows' = Append(rows, Row(resolvers[ri].Name, summarize(samples), samples))
    /\ ri' = ri + 1
    /\ pc' = "resolver"
    /\ UNCHANGED <<flags, resolvers, i, samples, inflight, issued, table, stdout,
                   stderr, csv, exitCode>>

\* main.go 68, 87: the outer loop ends, the table is printed
PrintTable ==
    /\ pc = "resolver"
    /\ ri > Len(resolvers)
    /\ table' = printTable(rows)
    /\ stdout' = Append(stdout, "table")
    /\ pc' = "report"
    /\ UNCHANGED <<flags, resolvers, ri, i, samples, rows, inflight, issued, stderr,
                   csv, exitCode>>

\* main.go 89, 96: no -out flag, main returns
FinishNoCSV ==
    /\ pc = "report"
    /\ flags.outCSV = <<>>
    /\ exitCode' = 0
    /\ pc' = "exit"
    /\ UNCHANGED <<flags, resolvers, ri, i, samples, rows, inflight, issued, table,
                   stdout, stderr, csv>>

\* main.go 89-96: writeCSV succeeds
FinishCSVWritten ==
    /\ pc = "report"
    /\ flags.outCSV # <<>>
    /\ csv' = "written"
    /\ stdout' = Append(stdout, "CSV written to")
    /\ exitCode' = 0
    /\ pc' = "exit"
    /\ UNCHANGED <<flags, resolvers, ri, i, samples, rows, inflight, issued, table,
                   stderr>>

\* main.go 89-93: writeCSV returns an error (os.Create or a Write failed)
FinishCSVFailed ==
    /\ pc = "report"
    /\ flags.outCSV # <<>>
    /\ csv' = "failed"
    /\ stderr' = Append(stderr, "CSV write error")
    /\ exitCode' = 1
    /\ pc' = "exit"
    /\ UNCHANGED <<flags, resolvers, ri, i, samples, rows, inflight, issued, table,
                   stdout>>

NextMain ==
    \/ Parse
    \/ NoResolvers
    \/ StartRun
    \/ BeginResolverPanic
    \/ BeginResolver
    \/ IssueQuery
    \/ LookupReturns
    \/ EndResolver
    \/ PrintTable
    \/ FinishNoCSV
    \/ FinishCSVWritten
    \/ FinishCSVFailed

Spec == InitMain /\ [][NextMain]_vars

\* the run never stops while a step is possible: main is one thread that
\* runs to its end, and every lookup returns (the context deadline bounds it)
FairSpec == Spec /\ WF_vars(NextMain)

(***************************************************************************)
(* parseResolvers on every bounded configuration string                    *)
(***************************************************************************)
Strings(n) == UNION {[1..k -> Alphabet] : k \in 0..n}

InitParse ==
    /\ flags \in [resolversCSV : Strings(MaxLen), count : {0}, outCSV : {<<>>}]
    /\ pc = "start"
    /\ resolvers = <<>>
    /\ ri = 0
    /\ i = 0
    /\ samples = <<>>
    /\ rows = <<>>
    /\ inflight = {}
    /\ issued = <<>>
    /\ table = <<>>
    /\ stdout = <<>>
    /\ stderr = <<>>
    /\ csv = "none"
    /\ exitCode = Running

NextParse == Parse

SpecParse == InitParse /\ [][NextParse]_vars

(***************************************************************************)
(* summarize and printTable on every bounded sample sequence               *)
(***************************************************************************)
SampleSeqs(n) == UNION {[1..k -> Sample] : k \in 0..n}

InitSum ==
    /\ flags = [resolversCSV |-> <<>>, count |-> 0, outCSV |-> <<>>]
    /\ pc = "summarize"
    /\ resolvers = <<>>
    /\ ri = 0
    /\ i = 0
    /\ samples \in SampleSeqs(MaxSamples)
    /\ rows = <<>>
    /\ inflight = {}
    /\ issued = <<>>
    /\ table = <<>>
    /\ stdout = <<>>
    /\ stderr = <<>>
    /\ csv = "none"
    /\ exitCode = Running

\* main.go 83-84: stats := summarize(samples); rows = append(rows, Row{...})
Summarize ==
    /\ pc = "summarize"
    /\ rows' = <<Row(<<"a">>, summarize(samples), samples)>>
    /\ pc' = "summarized"
    /\ UNCHANGED <<flags, resolvers, ri, i, samples, inflight, issued, table, stdout,
                   stderr, csv, exitCode>>

\* main.go 87: printTable(rows)
PrintRows ==
    /\ pc = "summarized"
    /\ table' = printTable(rows)
    /\ pc' = "printed"
    /\ UNCHANGED <<flags, resolvers, ri, i, samples, rows, inflight, issued, stdout,
                   stderr, csv, exitCode>>

NextSum ==
    \/ Summarize
    \/ PrintRows

SpecSum == InitSum /\ [][NextSum]_vars

(***************************************************************************)
(* Properties of the run of main (Spec, FairSpec)                          *)
(***************************************************************************)
\* the lookups issued to the k-th resolver, in the order of issuance
IssuedTo(k) == SelectSeq(issued, LAMBDA q : q.r = k)

\* C1: with count >= 0, the loop of main leaves one row per parsed target, in
\* the order of the targets; each row holds count samples, and the sample at
\* index j is the outcome of the j-th lookup issued to that target.
C1_RowPerTarget ==
    /\ \A k \in 1..Len(rows) :
          /\ rows[k].Name = resolvers[k].Name
          /\ Len(rows[k].Samples) = flags.count
          /\ Len(IssuedTo(k)) = flags.count
          /\ \A j \in 1..Len(rows[k].Samples) :
                /\ rows[k].Samples[j].q = IssuedTo(k)[j]
                /\ rows[k].Samples[j].q = Query(k, j - 1)
    /\ pc = "report" => Len(rows) = Len(resolvers)

C1_Witness ==
    /\ pc = "report"
    /\ Len(rows) = 2
    /\ flags.count >= 2
    /\ rows[1].Samples[1].Err # rows[1].Samples[2].Err

\* the samples of a row that carry an error, in order
FailedOf(r) == SelectSeq(r.Samples, LAMBDA x : ~x.Err.nil)

C2_AllIssuedOnce ==
    pc = "report" =>
        /\ Len(issued) = flags.count * Len(resolvers)
        /\ \A k \in 1..Len(resolvers), run \in 0..(flags.count - 1) :
              Cardinality({n \in 1..Len(issued) : issued[n] = Query(k, run)}) = 1
        /\ \A n \in 1..Len(issued) :
              LET q == issued[n]
                  x == rows[q.r].Samples[q.run + 1]
              IN  /\ x.q = q
                  /\ ~x.Err.nil =>
                        /\ x.Err.id = n
                        /\ \A k \in 1..Len(rows) :
                              \A j \in 1..Len(rows[k].Samples) :
                                 rows[k].Samples[j].Err = x.Err =>
                                    (k = q.r /\ j = q.run + 1)
        /\ \A k \in 1..Len(rows) :
              /\ rows[k].Stats.Count = flags.count
              /\ rows[k].Stats.Errors =
                    [j \in 1..Len(FailedOf(rows[k])) |-> FailedOf(rows[k])[j].Err]

C2_ReachesReport ==
    (pc = "parsed" /\ Len(resolvers) > 0 /\ flags.count >= 0) ~> (pc = "report")

\* C2: a failed lookup (a timeout included) is never fatal.  Whatever the
\* lookups return, a run with at least one target and count >= 0 reaches the
\* report, and there count * |targets| lookups have been issued, each run
\* index of each target exactly once; every failed lookup is a sample of its
\* own target's row, at its own run index, and of no other row.
C2_FailuresNotFatal == []C2_AllIssuedOnce /\ C2_ReachesReport

C2_Witness ==
    /\ pc = "report"
    /\ Len(rows) = 2
    /\ flags.count >= 2
    /\ rows[1].Stats.Successes = 0
    /\ \E j \in 1..Len(rows[1].Samples) : rows[1].Samples[j].Err.msg = "timeout"
    /\ rows[2].Stats.Successes = flags.count

\* C3: the process exits with 1 and a message on standard error if no
\* resolver parsed or writing the CSV failed, and with 0 in every other case.
C3_ExitCodes ==
    pc = "exit" =>
        IF Len(resolvers) = 0 \/ csv = "failed"
        THEN exitCode = 1 /\ stderr # <<>>
        ELSE exitCode = 0

C9_OneOutstanding ==
    /\ Cardinality(inflight) <= 1
    /\ inflight # {} => (pc = "lookup" /\ inflight = {Query(ri, i)})

C9_IssueAfterRecord ==
    issued' # issued =>
        LET q == issued'[Len(issued')]
        IN  /\ inflight = {}
            /\ Len(samples) = q.run
            /\ \A j \in 1..Len(samples) : samples[j].q = Query(q.r, j - 1)
            /\ Len(rows) = q.r - 1
            /\ \A k \in 1..Len(rows) :
                  /\ Len(rows[k].Samples) = flags.count
                  /\ rows[k].Stats.Count = flags.count

Summarized == pc \in {"summarized", "printed"}

\* the elapsed times of the successful samples, ascending
RECURSIVE InsertInt(_, _)
InsertInt(x, s) ==
    IF s = <<>> THEN <<x>>
    ELSE IF Head(s) < x THEN <<Head(s)>> \o InsertInt(x, Tail(s))
    ELSE <<x>> \o s

RECURSIVE SortInt(_)
SortInt(s) == IF s = <<>> THEN <<>> ELSE InsertInt(Head(s), SortInt(Tail(s)))

SortedSuccesses ==
    LET ok == SelectSeq(samples, LAMBDA x : x.Err.nil)
    IN  SortInt([k \in 1..Len(ok) |-> ok[k].Duration])

\* d is the p-th percentile of the ascending s by linear interpolation,
\* to the nanosecond: position = (p/100)*(n-1), lo and hi its floor and
\* ceiling, s[lo]*(1-frac) + s[hi]*frac, all times 100 to stay in integers
IsPercentile(d, s, p) ==
    LET n   == Len(s)
        lo  == (p * (n - 1)) \div 100
        rem == (p * (n - 1)) % 100
        hi  == IF rem = 0 THEN lo ELSE lo + 1
    IN  d = (s[lo + 1] * (100 - rem) + s[hi + 1] * rem) \div 100

\* C4: with at least one success, Median and P95 are the 50th and 95th
\* percentile, by linear interpolation, of the sorted successful elapsed
\* times.
C4_MedianP95 ==
    (Summarized /\ rows[1].Stats.Successes >= 1) =>
        /\ IsPercentile(rows[1].Stats.Median, SortedSuccesses, 50)
        /\ IsPercentile(rows[1].Stats.P95, SortedSuccesses, 95)

\* C5: with no successful sample, Min, Max, Avg, Median and P95 are all zero
\* (never the elapsed time of a failure, never the MaxInt64 placeholder), and
\* the table shows "--" for each of them.
C5_NoSuccessNotAvailable ==
    (Summarized /\ \A k \in 1..Len(samples) : ~samples[k].Err.nil) =>
        /\ rows[1].Stats.Min = 0
        /\ rows[1].Stats.Max = 0
        /\ rows[1].Stats.Avg = 0
        /\ rows[1].Stats.Median = 0
        /\ rows[1].Stats.P95 = 0
        /\ pc = "printed" => \A c \in 1..5 : table[1].Cells[c] = <<"--">>

C5_Witness ==
    /\ pc = "printed"
    /\ Len(samples) >= 2
    /\ \A k \in 1..Len(samples) : ~samples[k].Err.nil /\ samples[k].Duration > 0

\* C6: Count is the number of samples, Successes the number of samples
\* without error whatever their elapsed time; so Successes <= Count and
\* Successes plus the number of recorded errors is Count.
C6_CountAndSuccesses ==
    Summarized =>
        /\ rows[1].Stats.Count = Len(samples)
        /\ rows[1].Stats.Successes =
              Cardinality({k \in 1..Len(samples) : samples[k].Err.nil})
        /\ rows[1].Stats.Successes <= rows[1].Stats.Count
        /\ rows[1].Stats.Successes + Len(rows[1].Stats.Errors) = rows[1].Stats.Count

C6_Witness ==
    /\ Summarized
    /\ \E k \in 1..Len(samples) : samples[k].Err.nil /\ samples[k].Duration = 0
    /\ \E k \in 1..Len(samples) : ~samples[k].Err.nil
    /\ \E k \in 1..Len(samples) : samples[k].Err.nil /\ samples[k].Duration > 0

\* index of the first failed sample whose message is m
FirstFailure(m) ==
    CHOOSE k \in 1..Len(samples) :
        /\ ~samples[k].Err.nil /\ samples[k].Err.msg = m
        /\ \A j \in 1..(k - 1) : samples[j].Err.nil \/ samples[j].Err.msg # m

\* C8: the error lines reported for a resolver are exactly the messages of
\* its failed samples, each once, in the order of first occurrence.
C8_DistinctErrors ==
    pc = "printed" =>
        LET lines == table[1].ErrLines
        IN  /\ {lines[a] : a \in 1..Len(lines)} =
                  {samples[k].Err.msg : k \in {n \in 1..Len(samples) : ~samples[n].Err.nil}}
            /\ \A a, b \in 1..Len(lines) : a # b => lines[a] # lines[b]
            /\ \A a, b \in 1..Len(lines) :
                  a < b => FirstFailure(lines[a]) < FirstFailure(lines[b])

C8_Witness ==
    /\ pc = "printed"
    /\ Len(table[1].ErrLines) = 2
    /\ \E j, k \in 1..Len(samples) :
          /\ j # k
          /\ ~samples[j].Err.nil
          /\ ~samples[k].Err.nil
          /\ samples[j].Err.msg = samples[k].Err.msg
          /\ samples[j].Err.id # samples[k].Err.id

\* C10: with at least one success, Min <= Median <= P95 <= Max and
\* Min <= Avg <= Max.
C10_StatsConsistent ==
    (Summarized /\ rows[1].Stats.Successes >= 1) =>
        LET s == rows[1].Stats
        IN  /\ s.Min <= s.Median
            /\ s.Median <= s.P95
            /\ s.P95 <= s.Max
            /\ s.Min <= s.Avg
            /\ s.Avg <= s.Max

(***************************************************************************)
(* Properties of parseResolvers (SpecParse)                                *)
(***************************************************************************)
HasEq(p) == \E k \in 1..Len(p) : p[k] = "="

\* the comma-separated segments that are non-empty after trimming and
\* contain '=', trimmed, in input order
KeptSegments(s) ==
    LET segs == Split(s, ",")
        kept == SelectSeq(segs, LAMBDA p : TrimSpace(p) # <<>> /\ HasEq(p))
    IN  [k \in 1..Len(kept) |-> TrimSpace(kept[k])]

FirstEq(p) == CHOOSE k \in 1..Len(p) : p[k] = "=" /\ \A j \in 1..(k - 1) : p[j] # "="
BeforeEq(p) == SubSeq(p, 1, FirstEq(p) - 1)
AfterEq(p) == SubSeq(p, FirstEq(p) + 1, Len(p))

\* C7 as stated: one target per kept segment, in order, the name being the
\* text before the first '=' and the address the text after it.
C7_TextAroundEq ==
    pc = "parsed" =>
        LET kept == KeptSegments(flags.resolversCSV)
        IN  /\ Len(resolvers) = Len(kept)
            /\ \A k \in 1..Len(kept) :
                  /\ resolvers[k].Name = BeforeEq(kept[k])
                  /\ resolvers[k].Addr = AfterEq(kept[k])

\* C7 amended: one target per kept segment, in order, the name being the
\* text before the first '=' and the address the text after it, each with
\* its surrounding whitespace trimmed.
C7_TrimmedAroundEq ==
    pc = "parsed" =>
        LET kept == KeptSegments(flags.resolversCSV)
        IN  /\ Len(resolvers) = Len(kept)
            /\ \A k \in 1..Len(kept) :
                  /\ resolvers[k].Name = TrimSpace(BeforeEq(kept[k]))
                  /\ resolvers[k].Addr = TrimSpace(AfterEq(kept[k]))

C7_Witness ==
    /\ pc = "parsed"
    /\ Len(resolvers) >= 1
    /\ Len(Split(flags.resolversCSV, ",")) > Len(resolvers)
    /\ \E k \in 1..Len(resolvers) :
          resolvers[k].Name # BeforeEq(KeptSegments(flags.resolversCSV)[k])

=============================================================================
